---- MODULE Spec2Model ----
(***************************************************************************)
(* dif-jsonmutator: the schema-walking mutation engine of src/main.py      *)
(* (class JSONMutator).                                                    *)
(*                                                                         *)
(* JSON values are tagged records:                                         *)
(*   null   [k |-> "null"]            bool  [k |-> "bool", b |-> TRUE]     *)
(*   int    [k |-> "int", i |-> 5]    float [k |-> "float", cls, num, den] *)
(*   str    [k |-> "str", s |-> <<97, 66>>]   (the characters' codes)      *)
(*   list   [k |-> "list", xs |-> <<v1, v2>>]                              *)
(*   dict   [k |-> "dict", m |-> [key |-> value]]                          *)
(* A schema node is such a value too; the "type" tag of a schema dict is   *)
(* kept as a TLA+ string, "items" as a schema node and "properties" as a   *)
(* function from keys to schema nodes.                                     *)
(* A call that ends in an exception has the outcome                        *)
(*   [k |-> "raise", exc |-> "TypeError"].                                 *)
(* random.* makes every operation nondeterministic: each operation is      *)
(* modelled by the set of its possible outcomes.                           *)
(***************************************************************************)
EXTENDS Integers, Sequences, FiniteSets, TLC

VARIABLES schema, sample, iterations, mutated_payloads, pc, exc

vars == <<schema, sample, iterations, mutated_payloads, pc, exc>>

(* ------------------------------ bounds -------------------------------- *)

\* mutate(iterations) is explored for iterations in 0..MaxIterations.
MaxIterations == 2

\* random.choice('abc...z') is explored for the first NumLetters letters; the
\* draws explored for one random string are those that repeat one letter.
NumLetters == 1

\* random.uniform(lo, hi) is explored on UniformSteps evenly spaced points
\* lo, lo + (hi-lo)/UniformSteps, ... of [lo, hi).
UniformSteps == 2

(* ------------------------------ values -------------------------------- *)

NullV == [k |-> "null"]
BoolV(b) == [k |-> "bool", b |-> b]
IntV(i) == [k |-> "int", i |-> i]
StrV(s) == [k |-> "str", s |-> s]
ListV(xs) == [k |-> "list", xs |-> xs]
DictV(m) == [k |-> "dict", m |-> m]
Raise(e) == [k |-> "raise", exc |-> e]

EmptyMap == [key \in {} |-> NullV]

Abs(n) == IF n < 0 THEN -n ELSE n

RECURSIVE GCD(_, _)
GCD(a, b) == IF b = 0 THEN a ELSE GCD(b, a % b)

\* A finite float num/den in lowest terms (the model computes with exact
\* rationals; binary rounding is not modelled).
FloatV(num, den) ==
    LET g == GCD(Abs(num), den)
    IN  [k |-> "float", cls |-> "fin", num |-> num \div g, den |-> den \div g]

Inf == [k |-> "float", cls |-> "inf", num |-> 0, den |-> 1]
NegInf == [k |-> "float", cls |-> "-inf", num |-> 0, den |-> 1]
NaN == [k |-> "float", cls |-> "nan", num |-> 0, den |-> 1]

IsDict(v) == v.k = "dict"
IsList(v) == v.k = "list"
IsStr(v) == v.k = "str"
IsRaise(o) == o.k = "raise"

\* The outcomes of a set that are returned values.
Returned(outs) == {o \in outs : ~IsRaise(o)}

\* bool is a subclass of int: True is 1, False is 0; a float is num/den.
IsNumber(v) == v.k \in {"int", "bool", "float"}
NumOf(v) == IF v.k = "int" THEN v.i ELSE IF v.k = "bool" THEN (IF v.b THEN 1 ELSE 0) ELSE v.num
DenOf(v) == IF v.k = "float" THEN v.den ELSE 1

(* ------------------------------ strings ------------------------------- *)

Upper(s) == [p \in 1..Len(s) |-> IF s[p] \in 97..122 THEN s[p] - 32 ELSE s[p]]
Lower(s) == [p \in 1..Len(s) |-> IF s[p] \in 65..90 THEN s[p] + 32 ELSE s[p]]
Reverse(s) == [p \in 1..Len(s) |-> s[Len(s) + 1 - p]]
Repeat(s, n) == [p \in 1..(n * Len(s)) |-> s[((p - 1) % Len(s)) + 1]]

Bang == <<33>>
XSS == <<60, 115, 99, 114, 105, 112, 116, 62, 97, 108, 101, 114, 116, 40, 39,
         88, 83, 83, 39, 41, 60, 47, 115, 99, 114, 105, 112, 116, 62>>
SQL == <<39, 32, 79, 82, 32, 39, 49, 39, 61, 39, 49>>
NUL == <<0>>

Letters == 97..(96 + NumLetters)

\* s + t, for a str t: only str + str is defined.
ConcatStr(data, t) ==
    IF IsStr(data) THEN StrV(data.s \o t) ELSE Raise("TypeError")

\* s.upper(), s.lower(): only a str has the method.
UpperOf(data) == IF IsStr(data) THEN StrV(Upper(data.s)) ELSE Raise("AttributeError")
LowerOf(data) == IF IsStr(data) THEN StrV(Lower(data.s)) ELSE Raise("AttributeError")

\* s[::-1]: a str and a list can be sliced; a dict takes the slice as a key
\* (unhashable before Python 3.12, a missing key since); nothing else is
\* subscriptable.
SliceReverse(data) ==
    IF IsStr(data) THEN {StrV(Reverse(data.s))}
    ELSE IF IsList(data) THEN {ListV(Reverse(data.xs))}
    ELSE IF IsDict(data) THEN {Raise("TypeError"), Raise("KeyError")}
    ELSE {Raise("TypeError")}

RandomString == {StrV([p \in 1..n |-> c]) : n \in 5..15, c \in Letters}

\* The outcomes of mutation_strategies[n](data) of _mutate_string.
StringStrategy(n, data) ==
    CASE n = 1 -> {ConcatStr(data, Repeat(Bang, j)) : j \in 1..5}
      [] n = 2 -> {UpperOf(data)}
      [] n = 3 -> {LowerOf(data)}
      [] n = 4 -> SliceReverse(data)
      [] n = 5 -> {ConcatStr(data, XSS)}
      [] n = 6 -> {ConcatStr(data, SQL)}
      [] n = 7 -> {ConcatStr(data, NUL)}
      [] n = 8 -> RandomString

\* _mutate_string: random.choice of the eight strategies, applied to data
\* whatever its type.
MutateString(data) == UNION {StringStrategy(n, data) : n \in 1..8}

(* ------------------------------ integers ------------------------------ *)

IntMax == 2147483647
IntMin == -2147483647 - 1

\* data + k and data - k for an int k (d is k or -k): defined on numbers only
\* (str + int, list + int, None + int and dict + int are TypeErrors).
AddInt(data, d) ==
    IF data.k \in {"int", "bool"} THEN IntV(NumOf(data) + d)
    ELSE IF data.k = "float" THEN FloatV(data.num + d * data.den, data.den)
    ELSE Raise("TypeError")

\* data * k for an int k: a number is multiplied, a str or a list is repeated.
MulInt(data, n) ==
    IF data.k \in {"int", "bool"} THEN IntV(NumOf(data) * n)
    ELSE IF data.k = "float" THEN FloatV(data.num * n, data.den)
    ELSE IF IsStr(data) THEN StrV(Repeat(data.s, n))
    ELSE IF IsList(data) THEN ListV(Repeat(data.xs, n))
    ELSE Raise("TypeError")

\* data // k for an int k: floor division, on numbers only.
FloorDivInt(data, n) ==
    IF ~IsNumber(data) THEN Raise("TypeError")
    ELSE IF n = 0 THEN Raise("ZeroDivisionError")
    ELSE IF data.k = "float" THEN FloatV(data.num \div (data.den * n), 1)
    ELSE IntV(NumOf(data) \div n)

\* The outcomes of mutation_strategies[n](data) of _mutate_integer.
IntegerStrategy(n, data) ==
    CASE n = 1 -> {AddInt(data, r) : r \in 1..10}
      [] n = 2 -> {AddInt(data, -r) : r \in 1..10}
      [] n = 3 -> {MulInt(data, r) : r \in 1..3}
      [] n = 4 -> {IF g # 0 THEN FloorDivInt(data, r) ELSE data : r \in 1..3, g \in 1..3}
      [] n = 5 -> {IntV(IntMax)}
      [] n = 6 -> {IntV(IntMin)}
      [] n = 7 -> {IntV(0)}

\* try: return strategy(data) / except e: return data
Except(outs, e, data) == {IF o = Raise(e) THEN data ELSE o : o \in outs}

\* Mutant of MutateInteger: the divisor is drawn by random.randint(0, 3).
MutateIntegerDividesByZero(data) ==
    Except(UNION ({IntegerStrategy(n, data) : n \in {1, 2, 3, 5, 6, 7}}
                  \cup {{FloorDivInt(data, r) : r \in 0..3}}),
           "OverflowError", data)

\* _mutate_integer: random.choice of the seven strategies; only an
\* OverflowError is caught.
MutateInteger(data) ==
    Except(UNION {IntegerStrategy(n, data) : n \in 1..7}, "OverflowError", data)

(* ------------------------------ numbers ------------------------------- *)

\* random.uniform(lo/10, hi/10), as the set of fractions <<num, den>> drawn.
Uniform(lo, hi) ==
    {<<lo * UniformSteps + j * (hi - lo), 10 * UniformSteps>> : j \in 0..(UniformSteps - 1)}

\* data + u and data - u for a float u = sgn * q[1]/q[2]: numbers only.
AddFloat(data, q, sgn) ==
    IF IsNumber(data)
    THEN FloatV(NumOf(data) * q[2] + sgn * q[1] * DenOf(data), DenOf(data) * q[2])
    ELSE Raise("TypeError")

\* data * u for a float u: numbers only (a sequence times a float is a TypeError).
MulFloat(data, q) ==
    IF IsNumber(data) THEN FloatV(NumOf(data) * q[1], DenOf(data) * q[2])
    ELSE Raise("TypeError")

\* data / u for a float u > 0 or u = 0: numbers only.
DivFloat(data, q) ==
    IF ~IsNumber(data) THEN Raise("TypeError")
    ELSE IF q[1] = 0 THEN Raise("ZeroDivisionError")
    ELSE FloatV(NumOf(data) * q[2], DenOf(data) * q[1])

\* The outcomes of mutation_strategies[n](data) of _mutate_number.
NumberStrategy(n, data) ==
    CASE n = 1 -> {AddFloat(data, u, 1) : u \in Uniform(1, 10)}
      [] n = 2 -> {AddFloat(data, u, -1) : u \in Uniform(1, 10)}
      [] n = 3 -> {MulFloat(data, u) : u \in Uniform(11, 20)}
      [] n = 4 -> {IF g[1] # 0 THEN DivFloat(data, u) ELSE data :
                      u \in Uniform(11, 20), g \in Uniform(11, 20)}
      [] n = 5 -> {Inf}
      [] n = 6 -> {NegInf}
      [] n = 7 -> {NaN}

\* _mutate_number: random.choice of the seven strategies; only a
\* ZeroDivisionError is caught.
MutateNumber(data) ==
    Except(UNION {NumberStrategy(n, data) : n \in 1..7}, "ZeroDivisionError", data)

(* ------------------------------ booleans ------------------------------ *)

\* _mutate_boolean: not random.choice([True, False]).
MutateBoolean == {BoolV(~c) : c \in BOOLEAN}

(* ------------------------------ traversal ----------------------------- *)

RECURSIVE MutateRecursive(_, _)

\* The schemas the traversal recurses with.
EmptySchema == DictV(EmptyMap)
HasKey(d, key) == key \in DOMAIN d.m

\* for item in data: mutated_array.append(<an outcome of rs[i]>); an exception
\* of one element ends the loop and the call.
RECURSIVE ListLoop(_, _, _)
ListLoop(i, rs, acc) ==
    IF i > Len(rs) THEN {ListV(acc)}
    ELSE UNION {IF IsRaise(o) THEN {o} ELSE ListLoop(i + 1, rs, Append(acc, o)) : o \in rs[i]}

\* for key, value in data.items(): mutated_object[key] = <an outcome of
\* rs[key]>; an exception of one value ends the loop and the call.
RECURSIVE ItemsLoop(_, _, _)
ItemsLoop(keys, rs, acc) ==
    IF keys = {} THEN {DictV(acc)}
    ELSE LET key == CHOOSE x \in keys : TRUE
         IN  UNION {IF IsRaise(o) THEN {o}
                    ELSE ItemsLoop(keys \ {key}, rs, (key :> o) @@ acc) : o \in rs[key]}

\* Mutant of MutateNull: the value is passed through.
MutateNullKeepsData(data) == {data}

\* data_type == "null"
MutateNull(data) == {NullV}

\* Mutant of MutateArray: the loop stops one element early.
MutateArrayDropsLast(sch, data) ==
    IF HasKey(sch, "items")
    THEN IF IsList(data)
         THEN ListLoop(1, [i \in 1..(Len(data.xs) - 1) |->
                              MutateRecursive(sch.m.items, data.xs[i])], <<>>)
         ELSE {ListV(<<>>)}
    ELSE {ListV(<<>>)}

\* Mutant of MutateArray: a schema without "items" recurses with {}.
MutateArrayWithoutItemsRecurses(sch, data) ==
    IF IsList(data)
    THEN ListLoop(1, [i \in 1..Len(data.xs) |->
                         MutateRecursive(IF HasKey(sch, "items") THEN sch.m.items
                                         ELSE EmptySchema, data.xs[i])], <<>>)
    ELSE {ListV(<<>>)}

\* data_type == "array"
MutateArray(sch, data) ==
    IF HasKey(sch, "items")
    THEN IF IsList(data)
         THEN ListLoop(1, [i \in 1..Len(data.xs) |-> MutateRecursive(sch.m.items, data.xs[i])], <<>>)
         ELSE {ListV(<<>>)}
    ELSE {ListV(<<>>)}

\* Mutant of MutateObject: the keys the schema does not declare are dropped.
MutateObjectDropsUndeclared(sch, data) ==
    IF IsDict(data)
    THEN IF HasKey(sch, "properties")
         THEN ItemsLoop(DOMAIN data.m \cap DOMAIN sch.m.properties,
                        [key \in DOMAIN data.m \cap DOMAIN sch.m.properties |->
                            MutateRecursive(sch.m.properties[key], data.m[key])],
                        EmptyMap)
         ELSE {NullV}
    ELSE {DictV(EmptyMap)}

\* Mutant of MutateObject: a value that is no dict is passed through.
MutateObjectKeepsNonDict(sch, data) ==
    IF IsDict(data)
    THEN IF HasKey(sch, "properties")
         THEN ItemsLoop(DOMAIN data.m,
                        [key \in DOMAIN data.m |->
                            IF key \in DOMAIN sch.m.properties
                            THEN MutateRecursive(sch.m.properties[key], data.m[key])
                            ELSE {data.m[key]}],
                        EmptyMap)
         ELSE {NullV}
    ELSE {data}

\* data_type == "object": with no "properties" in the schema the branch
\* returns nothing, and the call falls off its end and returns None.
MutateObject(sch, data) ==
    IF IsDict(data)
    THEN IF HasKey(sch, "properties")
         THEN ItemsLoop(DOMAIN data.m,
                        [key \in DOMAIN data.m |->
                            IF key \in DOMAIN sch.m.properties
                            THEN MutateRecursive(sch.m.properties[key], data.m[key])
                            ELSE {data.m[key]}],
                        EmptyMap)
         ELSE {NullV}
    ELSE {DictV(EmptyMap)}

\* Mutant of MutateWildcard: a str met without a schema is mutated.
MutateWildcardMutatesStrings(data) ==
    IF IsDict(data)
    THEN ItemsLoop(DOMAIN data.m,
                   [key \in DOMAIN data.m |-> MutateRecursive(EmptySchema, data.m[key])],
                   EmptyMap)
    ELSE IF IsStr(data) THEN MutateString(data)
    ELSE {data}

\* No "type" in the schema, or a schema that is no dict: a dict is rebuilt
\* with every value recursed with {}, anything else is returned as it is.
MutateWildcard(data) ==
    IF IsDict(data)
    THEN ItemsLoop(DOMAIN data.m,
                   [key \in DOMAIN data.m |-> MutateRecursive(EmptySchema, data.m[key])],
                   EmptyMap)
    ELSE {data}

\* data_type is none of the seven: a warning is logged, data is returned.
MutateUnsupported(data) == {data}

\* _mutate_recursive(schema, data): the set of its outcomes.
MutateRecursive(sch, data) ==
    IF IsDict(sch)
    THEN IF HasKey(sch, "type")
         THEN LET data_type == sch.m.type
              IN  CASE data_type = "string" -> MutateString(data)
                    [] data_type = "integer" -> MutateInteger(data)
                    [] data_type = "number" -> MutateNumber(data)
                    [] data_type = "boolean" -> MutateBoolean
                    [] data_type = "null" -> MutateNull(data)
                    [] data_type = "array" -> MutateArray(sch, data)
                    [] data_type = "object" -> MutateObject(sch, data)
                    [] OTHER -> MutateUnsupported(data)
         ELSE MutateWildcard(data)
    ELSE MutateWildcard(data)

(* ------------------------------ inputs -------------------------------- *)

Type(t) == DictV([type |-> t])
ArrayOf(items) == DictV([type |-> "array", items |-> items])
ObjectOf(props) == DictV([type |-> "object", properties |-> props])

StrX == StrV(<<120>>)
StraB == StrV(<<97, 66>>)
List123 == ListV(<<IntV(1), IntV(2), IntV(3)>>)
ListX5 == ListV(<<StrX, IntV(5)>>)
DictAB == DictV([a |-> StrX, b |-> IntV(42)])
DictNested == DictV([a |-> DictV([c |-> IntV(1)]), b |-> ListV(<<StraB>>)])

Samples ==
    {NullV, BoolV(TRUE), IntV(10), IntV(-7), IntV(0), FloatV(5, 2), StraB, StrV(<<>>),
     List123, ListX5, ListV(<<>>), DictAB, DictNested, DictV(EmptyMap)}

Schemas ==
    {Type("string"), Type("integer"), Type("number"), Type("boolean"), Type("null"),
     Type("array"), Type("object"), Type("date"),
     ArrayOf(Type("integer")), ArrayOf(Type("null")), ArrayOf(EmptySchema),
     ObjectOf([a |-> Type("string")]),
     ObjectOf([a |-> Type("string"), c |-> Type("integer")]),
     ObjectOf([a |-> Type("object"), b |-> ArrayOf(Type("string"))]),
     ObjectOf(EmptyMap),
     EmptySchema, DictV([items |-> Type("integer")]),
     NullV, StraB, ListV(<<Type("string")>>)}

LoopSamples == {IntV(10), StraB, DictAB, ListV(<<>>)}
LoopSchemas ==
    {Type("string"), Type("integer"), Type("boolean"), Type("null"), Type("array"),
     ObjectOf([a |-> Type("string")]), EmptySchema}

(* ------------------------------ mutate -------------------------------- *)

\* JSONMutator(schema, sample).mutate(iterations), at the head of its loop.
Start(schemas, samples, counts) ==
    /\ schema \in schemas
    /\ sample \in samples
    /\ iterations \in counts
    /\ mutated_payloads = <<>>
    /\ pc = "loop"
    /\ exc = "none"

\* One mutate(1) call for every pair of a schema and a sample.
Init == Start(Schemas, Samples, {1})

\* mutate(n) for n in 0..MaxIterations, on the smaller set of pairs.
InitLoop == Start(LoopSchemas, LoopSamples, 0..MaxIterations)

\* One pass of the loop: mutated_payloads.append(self._mutate_recursive(
\* self.schema, self.sample)); an exception leaves mutate.
Iterate ==
    /\ pc = "loop"
    /\ Len(mutated_payloads) < iterations
    /\ \E o \in MutateRecursive(schema, sample) :
          \/ /\ ~IsRaise(o)
             /\ mutated_payloads' = Append(mutated_payloads, o)
             /\ UNCHANGED <<pc, exc>>
          \/ /\ IsRaise(o)
             /\ pc' = "raised"
             /\ exc' = o.exc
             /\ UNCHANGED mutated_payloads
    /\ UNCHANGED <<schema, sample, iterations>>

\* return mutated_payloads
Return ==
    /\ pc = "loop"
    /\ Len(mutated_payloads) = iterations
    /\ pc' = "returned"
    /\ UNCHANGED <<schema, sample, iterations, mutated_payloads, exc>>

Next == Iterate \/ Return

Spec == Init /\ [][Next]_vars
SpecLoop == InitLoop /\ [][Next]_vars

(* ------------------------------ claims -------------------------------- *)

\* The payloads mutate has collected so far.
Payloads == {mutated_payloads[j] : j \in 1..Len(mutated_payloads)}

\* self.schema is a dict whose "type" is t.
SchemaType(t) == IsDict(schema) /\ HasKey(schema, "type") /\ schema.m.type = t

\* C1: for every pair of a schema and a sample, whatever their shapes and
\* types, _mutate_recursive and mutate return and never raise an exception.
C1_NeverRaises == pc # "raised"

\* C2: for a schema of type object, with or without properties, and a sample
\* that is a mapping, every result is a mapping that holds every key of the
\* sample, and each key the schema does not declare keeps the sample's value.
C2_ObjectReturnsMapping ==
    (SchemaType("object") /\ IsDict(sample)) =>
        \A out \in Payloads :
            /\ IsDict(out)
            /\ DOMAIN sample.m \subseteq DOMAIN out.m
            /\ \A key \in DOMAIN sample.m :
                  (HasKey(schema, "properties") => key \notin DOMAIN schema.m.properties)
                      => out.m[key] = sample.m[key]

\* C3: for every schema, sample and n >= 0, mutate(n) ends by returning a
\* sequence of exactly n elements, each a result of _mutate_recursive(schema,
\* sample); mutate(0) returns the empty sequence.
C3_MutateReturnsN ==
    pc # "loop" =>
        /\ pc = "returned"
        /\ Len(mutated_payloads) = iterations
        /\ Payloads \subseteq Returned(MutateRecursive(schema, sample))

\* C4: for an object schema that declares properties P and a mapping sample
\* V, every output has exactly the keys of V, and every key of V that is not
\* in P maps to V's value for it.
C4_UnknownFieldPassthrough ==
    (SchemaType("object") /\ HasKey(schema, "properties") /\ IsDict(sample)) =>
        \A out \in Payloads :
            /\ IsDict(out)
            /\ DOMAIN out.m = DOMAIN sample.m
            /\ \A key \in DOMAIN sample.m \ DOMAIN schema.m.properties :
                  out.m[key] = sample.m[key]

\* C4 witness: properties a and c, sample {"a": "x", "b": 42}: an output whose
\* a was mutated, whose b is 42 and that holds no c.
C4_Witness ==
    /\ pc = "returned"
    /\ schema = ObjectOf([a |-> Type("string"), c |-> Type("integer")])
    /\ sample = DictAB
    /\ mutated_payloads = <<DictV([a |-> StrV(<<88>>), b |-> IntV(42)])>>

\* C5: for an array schema that declares items and a list sample of length
\* k, every output is a list of length k whose element i is a possible result
\* of _mutate_recursive(items, sample[i]).
C5_ArrayShapePreserved ==
    (SchemaType("array") /\ HasKey(schema, "items") /\ IsList(sample)) =>
        \A out \in Payloads :
            /\ IsList(out)
            /\ Len(out.xs) = Len(sample.xs)
            /\ \A i \in 1..Len(sample.xs) :
                  out.xs[i] \in MutateRecursive(schema.m.items, sample.xs[i])

\* C5 witness: items integer, sample [1, 2, 3]: a three-element output with
\* every element mutated.
C5_Witness ==
    /\ pc = "returned"
    /\ schema = ArrayOf(Type("integer"))
    /\ sample = List123
    /\ mutated_payloads = <<ListV(<<IntV(IntMax), IntV(-8), IntV(9)>>)>>

\* C6: an object schema with a sample that is no mapping yields the empty
\* mapping, an array schema that declares items with a sample that is no list
\* yields the empty list, and neither raises.
C6_FallbackContainers ==
    /\ (SchemaType("object") /\ ~IsDict(sample)) =>
          (pc # "raised" /\ Payloads \subseteq {DictV(EmptyMap)})
    /\ (SchemaType("array") /\ HasKey(schema, "items") /\ ~IsList(sample)) =>
          (pc # "raised" /\ Payloads \subseteq {ListV(<<>>)})

\* C6 witness: schema {"type": "object"} with sample 10 has returned {}.
C6_Witness ==
    /\ pc = "returned"
    /\ schema = Type("object")
    /\ sample = IntV(10)
    /\ mutated_payloads = <<DictV(EmptyMap)>>

\* C7: an array schema that declares no items yields the empty list for
\* every sample, a non-empty list included.
C7_ArrayWithoutItems ==
    (SchemaType("array") /\ ~HasKey(schema, "items")) =>
        (pc # "raised" /\ Payloads \subseteq {ListV(<<>>)})

\* C7 witness: schema {"type": "array"} with sample [1, 2, 3] has returned [].
C7_Witness ==
    /\ pc = "returned"
    /\ schema = Type("array")
    /\ sample = List123
    /\ mutated_payloads = <<ListV(<<>>)>>

\* C8: a schema of type null yields null for a sample of any JSON type.
C8_NullForcing ==
    SchemaType("null") => (pc # "raised" /\ Payloads \subseteq {NullV})

\* C8 witness: schema {"type": "null"} with a mapping sample has returned null.
C8_Witness ==
    /\ pc = "returned"
    /\ schema = Type("null")
    /\ sample = DictAB
    /\ mutated_payloads = <<NullV>>

\* The outputs C9 lists for an integer sample v.
IntegerOutputs(v) ==
    {IntV(v + r) : r \in 1..10} \cup {IntV(v - r) : r \in 1..10}
        \cup {IntV(v * r) : r \in 1..3} \cup {IntV(v \div r) : r \in 1..3}
        \cup {IntV(2147483647), IntV(-2147483647 - 1), IntV(0)}

\* C9: for a schema of type integer and an integer sample v, the possible
\* outputs of one mutation are exactly v+k and v-k for k in 1..10, v*k and
\* floor(v/k) for k in 1..3, 2147483647, -2147483648 and 0; no division by
\* zero occurs.
C9_IntegerStrategySet ==
    (SchemaType("integer") /\ sample.k = "int") =>
        /\ MutateRecursive(schema, sample) = IntegerOutputs(sample.i)
        /\ Payloads \subseteq IntegerOutputs(sample.i)
        /\ pc # "raised"

\* C9 witness: schema integer with sample 10 has returned -2147483648.
C9_Witness ==
    /\ pc = "returned"
    /\ schema = Type("integer")
    /\ sample = IntV(10)
    /\ mutated_payloads = <<IntV(IntMin)>>

\* C10: when the schema is a mapping without a type key, or no mapping at
\* all, the output equals the sample, at any nesting depth.
C10_WildcardIdentity ==
    (~IsDict(schema) \/ ~HasKey(schema, "type")) =>
        (pc # "raised" /\ Payloads \subseteq {sample})

\* C10 witness: schema {} with the nested sample has returned the sample.
C10_Witness ==
    /\ pc = "returned"
    /\ schema = EmptySchema
    /\ sample = DictNested
    /\ mutated_payloads = <<DictNested>>

====
